---- MODULE Spec2Model ----
(***************************************************************************)
(* Static workflow analysis of codebase_summarizer                         *)
(* (src/src/workflow_analyzer.py, driven by src/src/summarizer.py).        *)
(*                                                                         *)
(* Strings are sequences of one-character strings, so that basename,       *)
(* lower(), split(), count() and substring tests are computed and not      *)
(* assumed.  A file content is the sequence of lexical items the analysis  *)
(* looks at (import statements, quoted JS imports, secret-shaped literals, *)
(* dangerous calls, unparseable text).  Importance scores are exact tenths *)
(* and a normalised score is the fraction <<raw, max_score>>.              *)
(***************************************************************************)
EXTENDS Integers, Sequences, FiniteSets, TLC

VARIABLES file_paths, file_contents, hashseed, pc,
          entrypoints, scores, graph, security, raised,
          output, prev, moved

vars == << file_paths, file_contents, hashseed, pc,
           entrypoints, scores, graph, security, raised,
           output, prev, moved >>

----------------------------------------------------------------------------
(* Bounds of the model                                                     *)

MaxFiles == 2
MaxBulk == 12
NumSeeds == 2

----------------------------------------------------------------------------
(* Strings                                                                 *)

Min(a, b) == IF a < b THEN a ELSE b
Max(a, b) == IF a > b THEN a ELSE b

UpperLetters ==
  << "A","B","C","D","E","F","G","H","I","J","K","L","M",
     "N","O","P","Q","R","S","T","U","V","W","X","Y","Z" >>
LowerLetters ==
  << "a","b","c","d","e","f","g","h","i","j","k","l","m",
     "n","o","p","q","r","s","t","u","v","w","x","y","z" >>

LowerChar(c) ==
  IF \E i \in 1..26 : UpperLetters[i] = c
    THEN LowerLetters[CHOOSE i \in 1..26 : UpperLetters[i] = c]
    ELSE c

\* str.lower()
Lower(s) == [i \in 1..Len(s) |-> LowerChar(s[i])]

\* str.count(ch)
Count(s, ch) == Cardinality({i \in 1..Len(s) : s[i] = ch})

\* index of the last / first occurrence of ch in s, 0 when there is none
LastIndex(s, ch) ==
  IF \E i \in 1..Len(s) : s[i] = ch
    THEN CHOOSE i \in 1..Len(s) : s[i] = ch /\ \A j \in (i+1)..Len(s) : s[j] # ch
    ELSE 0
FirstIndex(s, ch) ==
  IF \E i \in 1..Len(s) : s[i] = ch
    THEN CHOOSE i \in 1..Len(s) : s[i] = ch /\ \A j \in 1..(i-1) : s[j] # ch
    ELSE 0

\* os.path.basename(path), os.sep = "/"
Basename(path) == SubSeq(path, LastIndex(path, "/") + 1, Len(path))

\* os.path.splitext(path)[1]: from the last dot of the basename, unless only
\* dots precede it
Ext(path) ==
  LET b == Basename(path)
      d == LastIndex(b, ".")
  IN IF d > 0 /\ \E j \in 1..(d-1) : b[j] # "."
       THEN SubSeq(b, d, Len(b))
       ELSE << >>

\* s.split(ch)[0]
SplitFirst(s, ch) ==
  IF FirstIndex(s, ch) = 0 THEN s ELSE SubSeq(s, 1, FirstIndex(s, ch) - 1)

\* needle in hay
Contains(hay, needle) ==
  \E i \in 0..(Len(hay) - Len(needle)) :
     SubSeq(hay, i + 1, i + Len(needle)) = needle

\* x in list
InSeq(x, s) == \E i \in 1..Len(s) : s[i] = x

\* the elements of s in order, each kept at its first occurrence only
RECURSIVE Dedup(_)
Dedup(s) ==
  IF s = << >> THEN << >>
  ELSE LET r == Dedup(SubSeq(s, 1, Len(s) - 1))
       IN IF InSeq(s[Len(s)], r) THEN r ELSE Append(r, s[Len(s)])

RECURSIVE Flatten(_)
Flatten(ss) == IF ss = << >> THEN << >> ELSE Head(ss) \o Flatten(Tail(ss))

----------------------------------------------------------------------------
(* Tables of workflow_analyzer.py                                          *)

\* ENTRYPOINT_PATTERNS.items(), flattened in table order
ENTRYPOINT_PATTERNS ==
  << <<"m","a","i","n",".","p","y">>,
     <<"a","p","p",".","p","y">>,
     <<"s","e","r","v","e","r",".","p","y">>,
     <<"r","u","n",".","p","y">>,
     <<"m","a","n","a","g","e",".","p","y">>,
     <<"i","n","d","e","x",".","j","s">>,
     <<"s","e","r","v","e","r",".","j","s">>,
     <<"a","p","p",".","j","s">>,
     <<"m","a","i","n",".","j","s">>,
     <<"i","n","d","e","x",".","t","s">>,
     <<"s","e","r","v","e","r",".","t","s">>,
     <<"a","p","p",".","t","s">>,
     <<"m","a","i","n",".","t","s">>,
     <<"M","a","i","n",".","j","a","v","a">>,
     <<"A","p","p",".","j","a","v","a">>,
     <<"m","a","i","n",".","g","o">>,
     <<"m","a","i","n",".","r","s">>,
     <<"l","i","b",".","r","s">> >>

\* MODULE_PATTERNS: per category, the alternatives of r".*x.*|.*y.*"
MODULE_PATTERNS ==
  << << <<"m","o","d","e","l">> >>,
     << <<"r","o","u","t","e">>, <<"r","o","u","t","e","r">> >>,
     << <<"c","o","n","t","r","o","l","l","e","r">> >>,
     << <<"s","e","r","v","i","c","e">> >>,
     << <<"u","t","i","l">>, <<"h","e","l","p","e","r">> >>,
     << <<"c","o","n","f","i","g">>, <<"s","e","t","t","i","n","g">> >>,
     << <<"d","b">>, <<"d","a","t","a","b","a","s","e">> >> >>

\* secrets_patterns, by the kind of literal each regex matches
SecretsPatterns == << "apikey", "password", "aws", "ghp" >>

SecretLabel == "Potential secret found"
EvalLabel == "Dangerous eval/exec detected"
ShellLabel == "Shell injection risk"

MaxEdges == 50
MaxImportsPerFile == 5
MaxRisks == 10
NodeSize == 15
PatternBonus == 8
DepthStep == 2
PositionFloor == 1
PositionTop == 10

----------------------------------------------------------------------------
(* detect_entrypoints                                                      *)

\* mutant: the first path with a basename is kept, later ones do not
\* overwrite it
BasenameToPathFirst(paths, b) ==
  LET hits == {i \in 1..Len(paths) : Lower(Basename(paths[i])) = b}
  IN paths[CHOOSE i \in hits : \A j \in hits : i <= j]

\* basename_to_path[b] after the first loop: the last path with that
\* lower-cased basename
BasenameToPath(paths, b) ==
  LET hits == {i \in 1..Len(paths) : Lower(Basename(paths[i])) = b}
  IN paths[CHOOSE i \in hits : \A j \in hits : j <= i]

\* mutant: the basename is compared without lower()
HasBasenameCaseSensitive(paths, b) ==
  \E i \in 1..Len(paths) : Basename(paths[i]) = b

HasBasename(paths, b) ==
  \E i \in 1..Len(paths) : Lower(Basename(paths[i])) = b

RECURSIVE EntrypointsFrom(_, _)
EntrypointsFrom(paths, k) ==
  IF k > Len(ENTRYPOINT_PATTERNS) THEN << >>
  ELSE LET pattern == Lower(ENTRYPOINT_PATTERNS[k])
       IN (IF HasBasename(paths, pattern)
             THEN << BasenameToPath(paths, pattern) >>
             ELSE << >>) \o EntrypointsFrom(paths, k + 1)

detect_entrypoints(paths) == EntrypointsFrom(paths, 1)

----------------------------------------------------------------------------
(* detect_important_modules                                                *)

\* mutant: the separator before the basename is not counted
DepthOfParent(path) == Max(Count(path, "/") - 1, 0)

\* depth = rel_path.count(os.sep)
Depth(path) == Count(path, "/")

\* mutant: the 0.1 floor is left out
PositionScoreNoFloor(path) == PositionTop - Depth(path) * DepthStep

\* position_score = max(1.0 - depth * 0.2, 0.1), in tenths
PositionScore(path) ==
  Max(PositionTop - Depth(path) * DepthStep, PositionFloor)

\* re.search(regex, basename) for a regex of MODULE_PATTERNS
CategoryMatches(k, basename) ==
  \E a \in 1..Len(MODULE_PATTERNS[k]) : Contains(basename, MODULE_PATTERNS[k][a])

\* the loop over MODULE_PATTERNS: 0.8 for the first category that matches
PatternScore(path) ==
  IF \E k \in 1..Len(MODULE_PATTERNS) : CategoryMatches(k, Lower(Basename(path)))
    THEN PatternBonus
    ELSE 0

RawScore(path) == PositionScore(path) + PatternScore(path)

PathSet(paths) == {paths[i] : i \in 1..Len(paths)}

MaxOf(S) == CHOOSE m \in S : \A x \in S : x <= m

\* the result is [raised, value]: value maps each path to <<raw, max_score>>,
\* the fraction scores[path] / max_score
detect_important_modules(paths) ==
  LET raw == [p \in PathSet(paths) |-> RawScore(p)]
      max_score == MaxOf({raw[p] : p \in PathSet(paths)})
  IN IF paths = << >>
       THEN [raised |-> "none", value |-> << >>]
     ELSE IF max_score = 0
       THEN [raised |-> "ZeroDivisionError", value |-> << >>]
     ELSE [raised |-> "none",
           value |-> [p \in PathSet(paths) |-> << raw[p], max_score >>]]

----------------------------------------------------------------------------
(* parse_python_imports, parse_js_imports                                  *)

LocalSentinel == <<"l","o","c","a","l">>

\* ast.parse(content) raises on text that is no Python: garbage, or a quoted
\* JS import
PythonParses(content) ==
  \A i \in 1..Len(content) : content[i].t \notin {"bad", "jsimport"}

\* the names one statement appends to imports
StatementImports(tok) ==
  IF tok.t = "import"
    THEN [i \in 1..Len(tok.arg) |-> SplitFirst(tok.arg[i], ".")]
  ELSE IF tok.t = "from"
    THEN IF tok.arg = << >> THEN << LocalSentinel >>
         ELSE << SplitFirst(tok.arg[1], ".") >>
  ELSE << >>

\* hash of a string under the process's hash seed, reduced to a slot of the
\* 8-slot table of a small set
HashSlots == 8
RECURSIVE StrHash(_, _)
StrHash(s, seed) ==
  IF s = << >> THEN seed % HashSlots
  ELSE LET c == s[Len(s)]
           o == IF \E i \in 1..26 : LowerLetters[i] = c
                  THEN CHOOSE i \in 1..26 : LowerLetters[i] = c
                  ELSE 27
       IN (StrHash(SubSeq(s, 1, Len(s) - 1), seed) * 3 + o) % HashSlots

\* list(set(imports)): distinct names in slot order, colliding names in
\* insertion order
ListOfSet(imports, seed) ==
  LET d == Dedup(imports)
  IN Flatten([k \in 1..HashSlots |->
                SelectSeq(d, LAMBDA n : StrHash(n, seed) = k - 1)])

parse_python_imports(content, seed) ==
  IF PythonParses(content)
    THEN ListOfSet(Flatten([i \in 1..Len(content) |-> StatementImports(content[i])]),
                   seed)
    ELSE << >>

\* re.findall(r'(?:import|from)\s+["\']([^"\']+)["\']', content), then the
\* first segment of each capture
parse_js_imports(content) ==
  LET found == SelectSeq(content, LAMBDA tok : tok.t = "jsimport")
      imports == [i \in 1..Len(found) |-> found[i].arg[1]]
  IN [i \in 1..Len(imports) |-> SplitFirst(imports[i], "/")]

----------------------------------------------------------------------------
(* build_real_dependency_graph                                             *)

Node(path) ==
  [id |-> path, label |-> Basename(path),
   group |-> SubSeq(Ext(path), 2, Len(Ext(path))), size |-> NodeSize]

Edge(from, to) == [from |-> from, to |-> to, label |-> "imports", value |-> 1]

ImportsOf(path, content, seed) ==
  IF Ext(path) = <<".","p","y">> THEN parse_python_imports(content, seed)
  ELSE IF Ext(path) \in { <<".","j","s">>, <<".","t","s">> }
    THEN parse_js_imports(content)
  ELSE << >>

\* mutant: every import is considered, the [:5] slice is left out
LimitImportsAll(imports) == imports

\* imports[:5]
LimitImports(imports) == SubSeq(imports, 1, Min(MaxImportsPerFile, Len(imports)))

ImportMatches(imp, candidate) == Contains(Lower(Basename(candidate)), Lower(imp))

\* the inner loop over file_paths with its break
EdgeOfImport(path, imp, paths) ==
  LET hits == {i \in 1..Len(paths) : ImportMatches(imp, paths[i])}
  IN IF hits = {} THEN << >>
     ELSE << Edge(path, paths[CHOOSE i \in hits : \A j \in hits : i <= j]) >>

EdgesOfFile(path, content, paths, seed) ==
  LET imports == LimitImports(ImportsOf(path, content, seed))
  IN Flatten([k \in 1..Len(imports) |-> EdgeOfImport(path, imports[k], paths)])

\* edges before the final slice, in discovery order
DiscoveredEdges(paths, contents, seed) ==
  Flatten([f \in 1..Len(contents) |->
             EdgesOfFile(contents[f].path, contents[f].content, paths, seed)])

\* mutant: the last 50 edges are kept, edges[-50:]
LimitEdgesLast(edges) ==
  SubSeq(edges, Max(1, Len(edges) - MaxEdges + 1), Len(edges))

\* edges[:50]
LimitEdges(edges) == SubSeq(edges, 1, Min(MaxEdges, Len(edges)))

\* mutant: the nodes are built from the keys of the content map
build_real_dependency_graph_NodesOfContents(paths, contents, seed) ==
  [nodes |-> [i \in 1..Len(contents) |-> Node(contents[i].path)],
   edges |-> LimitEdges(DiscoveredEdges(paths, contents, seed))]

build_real_dependency_graph(paths, contents, seed) ==
  [nodes |-> [i \in 1..Len(paths) |-> Node(paths[i])],
   edges |-> LimitEdges(DiscoveredEdges(paths, contents, seed))]

----------------------------------------------------------------------------
(* security_scan                                                           *)

HasToken(content, t) == \E i \in 1..Len(content) : content[i].t = t

\* re.search(pattern, content, re.IGNORECASE) for secrets_patterns[k]
SecretMatches(k, content) == HasToken(content, SecretsPatterns[k])

SecretIssues(content) ==
  Flatten([k \in 1..Len(SecretsPatterns) |->
             IF SecretMatches(k, content) THEN << SecretLabel >> ELSE << >>])

Issues(content) ==
  SecretIssues(content)
  \o (IF HasToken(content, "exec") \/ HasToken(content, "eval")
        THEN << EvalLabel >> ELSE << >>)
  \o (IF HasToken(content, "subprocess") /\ HasToken(content, "shell")
        THEN << ShellLabel >> ELSE << >>)

AllRisks(contents) ==
  Flatten([f \in 1..Len(contents) |->
             IF Issues(contents[f].content) # << >>
               THEN << [file |-> contents[f].path,
                        issues |-> Issues(contents[f].content)] >>
               ELSE << >>])

\* risks[:10]
LimitRisks(risks) == SubSeq(risks, 1, Min(MaxRisks, Len(risks)))

\* mutant: only the flagged files are counted
security_scan_CountsFlagged(contents) ==
  [risks |-> LimitRisks(AllRisks(contents)),
   total_files_scanned |-> Len(AllRisks(contents))]

security_scan(contents) ==
  [risks |-> LimitRisks(AllRisks(contents)),
   total_files_scanned |-> Len(contents)]

----------------------------------------------------------------------------
(* summarize_project: the analysis part of the driver                      *)

ProjectRoot == <<"/","r">>

\* os.path.join(dirpath, fname) of list_code_files, for a file at rel under
\* the root
JoinRoot(rel) == ProjectRoot \o <<"/">> \o rel

\* os.path.relpath(path, root_path) for a path under the root
RelPath(path) ==
  IF Len(path) > Len(ProjectRoot) + 1
     /\ SubSeq(path, 1, Len(ProjectRoot) + 1) = ProjectRoot \o <<"/">>
    THEN SubSeq(path, Len(ProjectRoot) + 2, Len(path))
    ELSE path

\* file_contents = {path: _read_file(path) for path in file_paths}: one entry
\* per distinct path, in first-insertion order, the last value written
DictOf(files) ==
  LET keys == Dedup([i \in 1..Len(files) |-> files[i].path])
  IN [k \in 1..Len(keys) |->
        LET hits == {i \in 1..Len(files) : files[i].path = keys[k]}
        IN [path |-> keys[k],
            content |-> files[CHOOSE i \in hits : \A j \in hits : j <= i].content]]

\* a / b < c / d for fractions with positive denominators
FracLess(x, y) == x[1] * y[2] < y[1] * x[2]

\* sorted(items, key=score, reverse=True): stable, so equal scores keep the
\* dict's order
RECURSIVE SortedDesc(_, _)
SortedDesc(keys, value) ==
  IF keys = << >> THEN << >>
  ELSE LET best == CHOOSE i \in 1..Len(keys) :
                     /\ \A j \in 1..Len(keys) : ~FracLess(value[keys[i]], value[keys[j]])
                     /\ \A j \in 1..(i-1) : FracLess(value[keys[j]], value[keys[i]])
           rest == [j \in 1..(Len(keys) - 1) |->
                      IF j < best THEN keys[j] ELSE keys[j + 1]]
       IN << keys[best] >> \o SortedDesc(rest, value)

TopK == 5
TopModules(paths, value) ==
  LET s == SortedDesc(Dedup(paths), value)
  IN [i \in 1..Min(TopK, Len(s)) |-> << s[i], value[s[i]] >>]

EmptyGraph == [nodes |-> << >>, edges |-> << >>]
NoSecurity == [risks |-> << >>, total_files_scanned |-> 0]

\* the dictionary summarize_project returns; the LLM-written texts
\* (project_summary, files, folders) are left out
summarize_project(files, seed) ==
  LET paths == [i \in 1..Len(files) |-> JoinRoot(files[i].path)]
      contents == DictOf([i \in 1..Len(files) |->
                            [path |-> paths[i], content |-> files[i].content]])
      eps == detect_entrypoints(paths)
      imp == detect_important_modules(paths)
      rel == {RelPath(k) : k \in DOMAIN imp.value}
  IN IF paths = << >>
       THEN [workflow |-> [entrypoints |-> << >>,
                           important_modules |-> << >>,
                           top_modules |-> << >>,
                           graph |-> EmptyGraph]]
     ELSE [workflow |->
             [entrypoints |-> [i \in 1..Len(eps) |-> RelPath(eps[i])],
              important_modules |->
                [r \in rel |-> imp.value[CHOOSE k \in DOMAIN imp.value : RelPath(k) = r]],
              top_modules |->
                LET t == TopModules(paths, imp.value)
                IN [i \in 1..Len(t) |-> << RelPath(t[i][1]), t[i][2] >>],
              graph |-> build_real_dependency_graph(paths, contents, seed)],
           security |-> security_scan(contents)]

----------------------------------------------------------------------------
(* Inputs: the files of the analysed project                               *)

Tok(t, arg) == [t |-> t, arg |-> arg]

MainPy == <<"m","a","i","n",".","p","y">>
SrcMainPy == <<"s","r","c","/","m","a","i","n",".","p","y">>
UserPy == <<"s","r","c","/","m","o","d","e","l","s","/","u","s","e","r",".","p","y">>
HelpersPy == <<"s","r","c","/","u","t","i","l","s","/","h","e","l","p","e","r","s",".","p","y">>
LocalPy == <<"l","o","c","a","l",".","p","y">>
AppJs == <<"a","p","p",".","j","s">>
DeepTs == <<"a","/","b","/","c","/","d","/","e","/","x",".","t","s">>

NameUser == <<"u","s","e","r">>
NameHelpers == <<"h","e","l","p","e","r","s">>

\* path and text of each file of the small project
FilePool ==
  { [path |-> MainPy,
     content |-> << Tok("import", << NameUser >>), Tok("import", << NameHelpers >>) >>],
    [path |-> SrcMainPy,
     content |-> << Tok("from", << >>) >>],
    [path |-> UserPy,
     content |-> << Tok("import", << NameHelpers, <<"h","e","l","p","e","r","s",".","x">> >>),
                    Tok("from", << <<"h","e","l","p","e","r","s",".","y">> >>), Tok("password", << >>) >>],
    [path |-> HelpersPy,
     content |-> << Tok("import", << NameUser >>), Tok("bad", << >>) >>],
    [path |-> LocalPy,
     content |-> << Tok("password", << >>), Tok("aws", << >>), Tok("ghp", << >>),
                    Tok("eval", << >>) >>],
    [path |-> AppJs,
     content |-> << Tok("jsimport", << <<"u","s","e","r","/","a">> >>), Tok("jsimport", << NameUser >>),
                    Tok("subprocess", << >>), Tok("shell", << >>) >>],
    [path |-> DeepTs,
     content |-> << Tok("jsimport", << <<"l","o","c","a","l">> >>), Tok("exec", << >>) >>] }

RECURSIVE SeqsUpTo(_, _)
SeqsUpTo(S, n) ==
  IF n = 0 THEN { << >> }
  ELSE LET shorter == SeqsUpTo(S, n - 1)
       IN shorter \cup {Append(s, x) : s \in {t \in shorter : Len(t) = n - 1}, x \in S}

FileOf(path) == CHOOSE f \in FilePool : f.path = path

\* the inventory of the worked example of the specification
Scenario == << FileOf(MainPy), FileOf(UserPy), FileOf(HelpersPy) >>

\* a larger project: q/a.py, q/b.js, q/c.py, ... whose files import one
\* another and hold secrets
BulkLetters == << "a","b","c","d","e","f","g","h","i","k","l","m","n","o" >>

BulkPath(i) ==
  <<"q","/">> \o << BulkLetters[i] >>
  \o (IF i % 2 = 1 THEN <<".","p","y">> ELSE <<".","j","s">>)

\* the second file is clean and imports nothing
BulkContent(i) ==
  IF i = 2 THEN << >>
  ELSE IF i % 2 = 1
    THEN << Tok("import", << <<"a">>, <<"b">>, <<"c">> >>),
            Tok("import", << <<"d">>, <<"e">>, <<"g">> >>),
            Tok("password", << >>) >>
    ELSE << Tok("jsimport", << <<"a","/","x">> >>), Tok("jsimport", << <<"b">> >>),
            Tok("jsimport", << <<"a">> >>), Tok("jsimport", << <<"c">> >>),
            Tok("jsimport", << <<"J","S">> >>), Tok("jsimport", << <<"e">> >>),
            Tok("eval", << >>) >>

Bulk(n) == [i \in 1..n |-> [path |-> BulkPath(i), content |-> BulkContent(i)]]

Projects ==
  SeqsUpTo(FilePool, MaxFiles)
  \cup { Scenario }
  \cup { Bulk(n) : n \in 1..MaxBulk }

Seeds == 0..(NumSeeds - 1)

----------------------------------------------------------------------------
(* State machine: the four analysis functions called on one project, in    *)
(* the driver's order, or summarize_project as a whole; the same input     *)
(* analysed a second time; a file of the inventory renamed.                *)

NoRun == [ran |-> FALSE, entrypoints |-> << >>, scores |-> << >>,
          graph |-> EmptyGraph, security |-> NoSecurity]
NotMoved == [idx |-> 0, was_in |-> FALSE]
NoOutput == [returned |-> FALSE]

Init ==
  /\ \E files \in Projects :
       /\ file_paths = [i \in 1..Len(files) |-> files[i].path]
       /\ file_contents = DictOf(files)
  /\ hashseed \in Seeds
  /\ pc = "entrypoints"
  /\ entrypoints = << >>
  /\ scores = << >>
  /\ graph = EmptyGraph
  /\ security = NoSecurity
  /\ raised = "none"
  /\ output = NoOutput
  /\ prev = NoRun
  /\ moved = NotMoved

DetectEntrypoints ==
  /\ pc = "entrypoints"
  /\ entrypoints' = detect_entrypoints(file_paths)
  /\ pc' = "modules"
  /\ UNCHANGED << file_paths, file_contents, hashseed, scores, graph, security,
                  raised, output, prev, moved >>

DetectImportantModules ==
  /\ pc = "modules"
  /\ LET r == detect_important_modules(file_paths)
     IN /\ raised' = r.raised
        /\ scores' = r.value
        /\ pc' = IF r.raised = "none" THEN "graph" ELSE "failed"
  /\ UNCHANGED << file_paths, file_contents, hashseed, entrypoints, graph, security,
                  output, prev, moved >>

BuildGraph ==
  /\ pc = "graph"
  /\ graph' = build_real_dependency_graph(file_paths, file_contents, hashseed)
  /\ pc' = "security"
  /\ UNCHANGED << file_paths, file_contents, hashseed, entrypoints, scores, security,
                  raised, output, prev, moved >>

SecurityScan ==
  /\ pc = "security"
  /\ security' = security_scan(file_contents)
  /\ pc' = "done"
  /\ UNCHANGED << file_paths, file_contents, hashseed, entrypoints, scores, graph,
                  raised, output, prev, moved >>

\* summarize_project(root) over the files of the project
SummarizeProject ==
  /\ pc = "entrypoints"
  /\ ~prev.ran
  /\ moved = NotMoved
  /\ output' = summarize_project(
                 [i \in 1..Len(file_contents) |->
                    [path |-> file_contents[i].path,
                     content |-> file_contents[i].content]], hashseed)
  /\ pc' = "returned"
  /\ UNCHANGED << file_paths, file_contents, hashseed, entrypoints, scores, graph,
                  security, raised, prev, moved >>

\* the same (paths, contents) analysed again, in this process or in a new one
Rerun ==
  /\ pc = "done"
  /\ ~prev.ran
  /\ moved = NotMoved
  /\ prev' = [ran |-> TRUE, entrypoints |-> entrypoints, scores |-> scores,
              graph |-> graph, security |-> security]
  /\ hashseed' \in Seeds
  /\ pc' = "entrypoints"
  /\ entrypoints' = << >>
  /\ scores' = << >>
  /\ graph' = EmptyGraph
  /\ security' = NoSecurity
  /\ UNCHANGED << file_paths, file_contents, raised, output, moved >>

DirPart(path) == SubSeq(path, 1, LastIndex(path, "/"))

UpperChar(c) ==
  IF \E i \in 1..26 : LowerLetters[i] = c
    THEN UpperLetters[CHOOSE i \in 1..26 : LowerLetters[i] = c]
    ELSE c

\* the directories a file may be moved to
Dirs == { << >>, <<"s","r","c","/">>, <<"a","/","b","/">> }

\* path with another directory part, or with the letter case of its basename
\* changed: all upper case, or the first letter's case flipped
Relocations(path) ==
  LET b == Basename(path)
      flip == [i \in 1..Len(b) |->
                 IF i = 1 THEN (IF UpperChar(b[1]) = b[1] THEN LowerChar(b[1])
                                ELSE UpperChar(b[1]))
                 ELSE b[i]]
  IN ({d \o b : d \in Dirs}
      \cup {DirPart(path) \o [i \in 1..Len(b) |-> UpperChar(b[i])],
            DirPart(path) \o flip})
     \ {path}

IsEntrypointName(path) ==
  \E k \in 1..Len(ENTRYPOINT_PATTERNS) :
     Lower(ENTRYPOINT_PATTERNS[k]) = Lower(Basename(path))

\* one file of the inventory is moved or renamed in place, then the inventory
\* is analysed again
Relocate ==
  /\ pc = "done"
  /\ ~prev.ran
  /\ moved = NotMoved
  /\ \E i \in 1..Len(file_paths) :
       /\ IsEntrypointName(file_paths[i])
       /\ \E q \in Relocations(file_paths[i]) :
            /\ file_paths' = [file_paths EXCEPT ![i] = q]
            /\ moved' = [idx |-> i,
                         was_in |-> /\ InSeq(file_paths[i], entrypoints)
                                    /\ Count(file_paths, file_paths[i]) = 1]
  /\ pc' = "entrypoints"
  /\ entrypoints' = << >>
  /\ scores' = << >>
  /\ graph' = EmptyGraph
  /\ security' = NoSecurity
  /\ UNCHANGED << file_contents, hashseed, raised, output, prev >>

Next ==
  \/ DetectEntrypoints
  \/ DetectImportantModules
  \/ BuildGraph
  \/ SecurityScan
  \/ SummarizeProject
  \/ Rerun
  \/ Relocate

Spec == Init /\ [][Next]_vars

\* which results of the current run are in
EntrypointsDone == pc \in {"modules", "graph", "security", "done"}
ModulesDone == pc \in {"graph", "security", "done"}
GraphDone == pc \in {"security", "done"}
SecurityDone == pc = "done"

----------------------------------------------------------------------------
(* Properties                                                              *)

\* C1: for a non-empty inventory every normalised importance score lies in
\* [0,1] and the largest is exactly 1; the divisor max_score is never zero,
\* every raw score being at least the 0.1 position floor, so the division
\* never fails.
C1_ScoresNormalized ==
  /\ pc # "failed"
  /\ raised = "none"
  /\ (ModulesDone /\ file_paths # << >>) =>
       /\ DOMAIN scores = PathSet(file_paths)
       /\ \A p \in DOMAIN scores :
            /\ scores[p][2] > 0
            /\ scores[p][1] >= PositionFloor
            /\ scores[p][1] <= scores[p][2]
       /\ \E p \in DOMAIN scores : scores[p][1] = scores[p][2]

\* a scored inventory holding a file at the position floor and a file scored
\* below the maximum
C1_Witness ==
  /\ ModulesDone
  /\ \E p \in DOMAIN scores : Depth(p) >= 5 /\ scores[p][1] = PositionFloor
  /\ \E p \in DOMAIN scores : scores[p][1] < scores[p][2]

\* C2: the graph holds at most 50 edges, and they are the first min(50, n) of
\* the n discovered edges, in discovery order.
C2_EdgesArePrefix ==
  GraphDone =>
    LET found == DiscoveredEdges(file_paths, file_contents, hashseed)
    IN /\ Len(graph.edges) <= 50
       /\ Len(graph.edges) = Min(50, Len(found))
       /\ \A k \in 1..Len(graph.edges) : graph.edges[k] = found[k]

\* a graph built from more than 50 discovered edges
C2_Witness ==
  /\ GraphDone
  /\ Len(DiscoveredEdges(file_paths, file_contents, hashseed)) > 50
  /\ Len(graph.edges) = 50

\* C3: risks holds at most 10 findings and total_files_scanned is the number
\* of entries of the content map, clean files and dropped findings included.
C3_RisksCapped ==
  SecurityDone =>
    /\ Len(security.risks) <= 10
    /\ security.total_files_scanned = Len(file_contents)

\* a scan of more than 10 flagged files and a clean one
C3_Witness ==
  /\ SecurityDone
  /\ Len(AllRisks(file_contents)) > 10
  /\ \E f \in 1..Len(file_contents) : Issues(file_contents[f].content) = << >>
  /\ Len(security.risks) = 10
  /\ security.total_files_scanned > 10

\* C4: analysing the same (paths, contents) twice gives identical results,
\* whatever process runs the second analysis.
C4_SameInputSameOutput ==
  (prev.ran /\ SecurityDone) =>
    /\ entrypoints = prev.entrypoints
    /\ scores = prev.scores
    /\ graph = prev.graph
    /\ security = prev.security

\* C5: a file that is an entrypoint stays one when its directory part is
\* replaced or the letter case of its basename is changed, its position in
\* the inventory kept.
C5_EntrypointByBasename ==
  (moved.was_in /\ EntrypointsDone) =>
    InSeq(file_paths[moved.idx], entrypoints)

\* an entrypoint renamed to a basename of another letter case, and detected
C5_Witness ==
  /\ moved.was_in
  /\ EntrypointsDone
  /\ Basename(file_paths[moved.idx]) # Lower(Basename(file_paths[moved.idx]))
  /\ InSeq(file_paths[moved.idx], entrypoints)

ScenarioPaths == << MainPy, UserPy, HelpersPy >>

FracEq(x, y) == x[1] * y[2] = y[1] * x[2]

\* C6 as stated: in the worked example both nested files have depth 1 and
\* raw score 1.6, user.py and helpers.py score 1.0 and main.py 0.625.
C6_ScenarioAsStated ==
  (ModulesDone /\ file_paths = ScenarioPaths) =>
    /\ Depth(UserPy) = 1
    /\ Depth(HelpersPy) = 1
    /\ scores[UserPy] = << 16, 16 >>
    /\ scores[HelpersPy] = << 16, 16 >>
    /\ FracEq(scores[MainPy], << 5, 8 >>)

\* C6 amended: in the worked example both nested files have depth 2
\* (position 0.6); user.py matches no pattern (raw 0.6), helpers.py matches
\* the utils pattern (raw 1.4); helpers.py scores 1.0, main.py 1.0/1.4 and
\* user.py 0.6/1.4.
C6_Scenario ==
  (ModulesDone /\ file_paths = ScenarioPaths) =>
    /\ Depth(UserPy) = 2
    /\ Depth(HelpersPy) = 2
    /\ scores[HelpersPy] = << 14, 14 >>
    /\ scores[MainPy] = << 10, 14 >>
    /\ scores[UserPy] = << 6, 14 >>

\* the worked example, scored
C6_Witness ==
  /\ ModulesDone
  /\ file_paths = ScenarioPaths
  /\ DOMAIN scores = { MainPy, UserPy, HelpersPy }

NoDuplicates(s) == \A i, j \in 1..Len(s) : s[i] = s[j] => i = j

\* C7: every file occurs at most once in risks, and no finding lists the
\* same label twice.
C7_FindingsDeduplicated ==
  SecurityDone =>
    /\ NoDuplicates([i \in 1..Len(security.risks) |-> security.risks[i].file])
    /\ \A i \in 1..Len(security.risks) : NoDuplicates(security.risks[i].issues)

\* C8: the raw import names extracted from a .py, .js or .ts file hold no
\* name twice.
C8_ImportsDeduplicated ==
  GraphDone =>
    \A f \in 1..Len(file_contents) :
       Ext(file_contents[f].path) \in { <<".","p","y">>, <<".","j","s">>, <<".","t","s">> }
         => NoDuplicates(ImportsOf(file_contents[f].path,
                                   file_contents[f].content, hashseed))

\* C9: for an empty file set every analysis result is empty, and the
\* dictionary summarize_project returns carries the same empty values,
\* security.risks and security.total_files_scanned included.
C9_EmptyProject ==
  /\ (file_paths = << >> /\ file_contents = << >> /\ SecurityDone) =>
       /\ entrypoints = << >>
       /\ scores = << >>
       /\ graph = EmptyGraph
       /\ security = NoSecurity
       /\ raised = "none"
  /\ (file_paths = << >> /\ pc = "returned") =>
       /\ output.workflow.entrypoints = << >>
       /\ output.workflow.important_modules = << >>
       /\ output.workflow.graph = EmptyGraph
       /\ "security" \in DOMAIN output
       /\ output.security = NoSecurity

\* a Python file whose text does not parse, or whose only imports are
\* from-imports without a module name
Degraded(path, content) ==
  /\ Ext(path) = <<".","p","y">>
  /\ \/ ~PythonParses(content)
     \/ \A i \in 1..Len(content) :
          content[i].t \in {"import", "from"} =>
            (content[i].t = "from" /\ content[i].arg = << >>)

\* C10: no analysis raises; a Python file that does not parse or that only
\* has from-imports without a module name yields [] or the 'local' sentinel
\* and contributes no edge, and every other file is still processed.
C10_ParseFailureIsSilent ==
  /\ raised = "none"
  /\ GraphDone =>
       \A f \in 1..Len(file_contents) :
          Degraded(file_contents[f].path, file_contents[f].content) =>
            /\ parse_python_imports(file_contents[f].content, hashseed)
                 \in { << >>, << LocalSentinel >> }
            /\ \A k \in 1..Len(graph.edges) :
                 graph.edges[k].from # file_contents[f].path
  /\ GraphDone => Len(graph.nodes) = Len(file_paths)
  /\ SecurityDone => security.total_files_scanned = Len(file_contents)

\* the inventory files whose basename contains the raw name, by index
Candidates(name) ==
  {i \in 1..Len(file_paths) :
     Contains(Lower(Basename(file_paths[i])), Lower(name))}

\* C11: a source file contributes at most 5 edges, one per raw name among
\* its first 5 that some basename contains, each going to the first
\* inventory file whose basename contains the name (case-insensitively); a
\* name no basename contains gives no edge.
C11_EdgesPerImport ==
  GraphDone =>
    \A f \in 1..Len(file_contents) :
       LET src == file_contents[f].path
           names == ImportsOf(src, file_contents[f].content, hashseed)
           considered == 1..Min(5, Len(names))
           mine == SelectSeq(graph.edges, LAMBDA e : e.from = src)
           first(k) == file_paths[CHOOSE i \in Candidates(names[k]) :
                                    \A j \in Candidates(names[k]) : i <= j]
           resolved == SelectSeq([k \in considered |-> k],
                                 LAMBDA k : Candidates(names[k]) # {})
       IN /\ Len(mine) <= 5
          /\ \A e \in 1..Len(mine) :
               \E k \in considered :
                  Candidates(names[k]) # {} /\ mine[e].to = first(k)
          /\ Len(graph.edges) < 50 =>
               [e \in 1..Len(mine) |-> mine[e].to]
                 = [e \in 1..Len(resolved) |-> first(resolved[e])]

\* a file with more than 5 raw names that contributes 5 edges, one of its
\* considered names being contained in several basenames, and a file with
\* a raw name that no basename contains
C11_Witness ==
  /\ GraphDone
  /\ Len(graph.edges) < 50
  /\ \E f \in 1..Len(file_contents) :
       LET src == file_contents[f].path
           names == ImportsOf(src, file_contents[f].content, hashseed)
       IN /\ Len(names) > 5
          /\ Len(SelectSeq(graph.edges, LAMBDA e : e.from = src)) = 5
          /\ \E k \in 1..5 : Cardinality(Candidates(names[k])) > 1
  /\ \E f \in 1..Len(file_contents) :
       LET names == ImportsOf(file_contents[f].path, file_contents[f].content,
                              hashseed)
       IN \E k \in 1..Min(5, Len(names)) : Candidates(names[k]) = {}

\* the entries of the entrypoint table, lower-cased
LoweredPatterns ==
  [k \in 1..Len(ENTRYPOINT_PATTERNS) |-> Lower(ENTRYPOINT_PATTERNS[k])]

\* the lower-cased basenames of the inventory
LoweredBasenames == [i \in 1..Len(file_paths) |-> Lower(Basename(file_paths[i]))]

\* the indices of the lower-cased basenames lb that are the lower-cased k-th
\* entry of the entrypoint table
Named(lb, k) == {i \in 1..Len(lb) : lb[i] = LoweredPatterns[k]}

\* C12: the result lists, for the table entries in table order that some
\* file matches, the last inventory file whose lower-cased basename is the
\* lower-cased entry; of several files sharing a basename only the last is
\* returned, and no path occurs twice.
C12_LastFilePerEntry ==
  EntrypointsDone =>
    \A lb \in { LoweredBasenames } :
    \A matched \in { SelectSeq([k \in 1..Len(ENTRYPOINT_PATTERNS) |-> k],
                               LAMBDA k : Named(lb, k) # {}) } :
       /\ Len(entrypoints) = Len(matched)
       /\ \A e \in 1..Len(entrypoints) :
            /\ \E i \in Named(lb, matched[e]) :
                 /\ entrypoints[e] = file_paths[i]
                 /\ \A j \in Named(lb, matched[e]) : j <= i
            /\ \A i \in Named(lb, matched[e]) :
                 file_paths[i] # entrypoints[e] =>
                    ~InSeq(file_paths[i], entrypoints)
       /\ NoDuplicates(entrypoints)

\* two files of different directories share an entrypoint basename and only
\* the later one is returned
C12_Witness ==
  /\ EntrypointsDone
  /\ Len(file_paths) = 2
  /\ file_paths[1] # file_paths[2]
  /\ Lower(Basename(file_paths[1])) = Lower(Basename(file_paths[2]))
  /\ entrypoints = << file_paths[2] >>

\* entries of two table rows, returned in table order and not in inventory
\* order
C12_WitnessOrder ==
  /\ EntrypointsDone
  /\ Len(entrypoints) = 2
  /\ entrypoints = << file_paths[2], file_paths[1] >>

\* C13: the graph has exactly one node per inventory entry, with the
\* entry's path as id and its basename as label, whatever the content map
\* holds and whether or not edges were dropped by the 50-edge limit.
C13_OneNodePerFile ==
  GraphDone =>
    /\ Len(graph.nodes) = Len(file_paths)
    /\ \A i \in 1..Len(file_paths) :
         /\ graph.nodes[i].id = file_paths[i]
         /\ graph.nodes[i].label = Basename(file_paths[i])
    /\ NoDuplicates(file_paths) =>
         NoDuplicates([i \in 1..Len(graph.nodes) |-> graph.nodes[i].id])

\* a graph whose edge list was cut at 50 and that has a node for each of its
\* more than 10 files
C13_Witness ==
  /\ GraphDone
  /\ Len(DiscoveredEdges(file_paths, file_contents, hashseed)) > 50
  /\ Len(graph.edges) = 50
  /\ Len(graph.nodes) > 10
  /\ Len(graph.nodes) = Len(file_paths)

\* a graph built with a content map that has a key outside the inventory,
\* and edges
C13_WitnessOtherContents ==
  /\ GraphDone
  /\ \E f \in 1..Len(file_contents) : ~InSeq(file_contents[f].path, file_paths)
  /\ graph.edges # << >>
  /\ Len(graph.nodes) = Len(file_paths)

====
